---------------------------- MODULE Spec2Model ----------------------------
(***************************************************************************)
(* Model of scoreWDL.py: the script that fits the win-draw-loss model to   *)
(* game statistics.  The script is one sequential program; pc is its       *)
(* position, and every loop of the core pipeline is an action.             *)
(*                                                                         *)
(* Floating-point values are modelled as exact rationals <<n, d>> in       *)
(* lowest terms with d > 0, so that two floats are equal exactly when      *)
(* their models are.  np.exp is tabulated (Logistic1000).  scipy's         *)
(* curve_fit is a library call: its result is a nondeterministic choice    *)
(* among a few parameter vectors, or one of the exceptions it raises.      *)
(* Plotting (matplotlib, griddata) is left out: it only reads the state.   *)
(***************************************************************************)
EXTENDS Integers, Sequences, FiniteSets

VARIABLES
    pc,         \* position of the script
    exc,        \* the uncaught exception that ended the run, or NoExc
    inpdict,    \* line 42: the input, a sequence of entries with distinct keys
    i,          \* index of the running for loop (lines 45, 67)
    win, draw, loss,            \* line 43: the three Counters
    retained,   \* lines 60-62: the printed (W,D,L) totals
    coords,     \* line 65
    xs, ys, zwins, zdraws, zlosses,   \* line 66
    m,          \* line 137: the move bucket
    xdata, ydata,               \* line 140
    model_ms, model_as, model_bs,     \* line 134
    popt_as, popt_bs,           \* lines 203-204
    report,     \* lines 213-215: the printed normalization values
    wdl_args, wdl_ret           \* a call of wdl (line 97) and what it returned

vars == <<pc, exc, inpdict, i, win, draw, loss, retained, coords, xs, ys,
          zwins, zdraws, zlosses, m, xdata, ydata, model_ms, model_as,
          model_bs, popt_as, popt_bs, report, wdl_args, wdl_ret>>

-----------------------------------------------------------------------------
(* Program constants *)

NormalizeToPawnValue == 328
moveTarget == 32
ScoreLimit == 400
MoveLimit == 120
ScoreDivisor == 100
FirstBucket == 3
BucketEnd == 120
grouping == 1
MinSamples == 10
PolyParams == 4
PerMille == 1000

(* Bounds of the model *)

MaxSamples == 10
MaxCount == 1
MaxMaterial == 1
MaxWdlScore == 1
MaxCoef == 1

NoExc == [type |-> "none", line |-> 0]

-----------------------------------------------------------------------------
(* Exact rationals standing for floats *)

Abs(n) == IF n < 0 THEN -n ELSE n

RECURSIVE GCD(_, _)
GCD(a, b) == IF b = 0 THEN a ELSE GCD(b, a % b)

Rat(n, d) ==
    LET g == GCD(Abs(n), Abs(d))
        s == IF d < 0 THEN -1 ELSE 1
    IN  <<(s * n) \div g, (s * d) \div g>>

RInt(n) == <<n, 1>>
RAdd(p, q) == Rat(p[1] * q[2] + q[1] * p[2], p[2] * q[2])
RSub(p, q) == Rat(p[1] * q[2] - q[1] * p[2], p[2] * q[2])
RMul(p, q) == Rat(p[1] * q[1], p[2] * q[2])
RNeg(p) == <<-p[1], p[2]>>
RLess(p, q) == p[1] * q[2] < q[1] * p[2]
\* floor of a rational
RFloor(p) == p[1] \div p[2]

\* The cases of a float division p / q that the script runs into: a finite
\* quotient, or (numpy scalars, q = 0.0) an infinity or a NaN.
FloatDiv(p, q) ==
    IF q[1] # 0 THEN [kind |-> "finite", val |-> Rat(p[1] * q[2], p[2] * q[1])]
    ELSE IF p[1] > 0 THEN [kind |-> "+inf"]
    ELSE IF p[1] < 0 THEN [kind |-> "-inf"]
    ELSE [kind |-> "nan"]

\* IntTrunc that rounds half up instead
IntTrunc_Round(p) == (2 * p[1] + p[2]) \div (2 * p[2])

\* int(x): truncation toward zero
IntTrunc(p) == IF p[1] >= 0 THEN p[1] \div p[2] ELSE -((-p[1]) \div p[2])

RECURSIVE SumSeq(_)
SumSeq(s) == IF s = <<>> THEN RInt(0) ELSE RAdd(Head(s), SumSeq(Tail(s)))

-----------------------------------------------------------------------------
(* Counters (collections.Counter): a missing key reads as 0 *)

Get(c, k) == IF k \in DOMAIN c THEN c[k] ELSE 0

\* Inc that assigns instead of adding
Inc_Overwrite(c, k, v) == [x \in DOMAIN c \cup {k} |-> IF x = k THEN v ELSE c[x]]

Inc(c, k, v) == [x \in DOMAIN c \cup {k} |-> IF x = k THEN Get(c, k) + v ELSE c[x]]

EmptyCounter == [x \in {} |-> 0]

RECURSIVE SumValues(_, _)
SumValues(c, S) ==
    IF S = {} THEN 0
    ELSE LET k == CHOOSE x \in S : TRUE IN c[k] + SumValues(c, S \ {k})

Values(c) == SumValues(c, DOMAIN c)

-----------------------------------------------------------------------------
(* Data Aggregator, lines 45-62 *)

\* Excluded with the last move cut off as well
Excluded_DropsLast(score, move) ==
    Abs(score) > ScoreLimit \/ move < 0 \/ move >= MoveLimit

\* Excluded with the filter left out
Excluded_Never(score, move) == FALSE

\* line 47: the entries the loop skips
Excluded(score, move) == Abs(score) > ScoreLimit \/ move < 0 \/ move > MoveLimit

\* line 51: score * NormalizeToPawnValue / 100, a float
Rescale(score) == Rat(score * NormalizeToPawnValue, ScoreDivisor)

Coord(e) == <<Rescale(e.score), e.move>>

\* one iteration of the loop of line 45
Aggregate ==
    /\ pc = "aggregate"
    /\ i <= Len(inpdict)
    /\ LET e == inpdict[i] IN
        IF Excluded(e.score, e.move)
        THEN UNCHANGED <<win, draw, loss>>
        ELSE /\ win' = IF e.result = "W" THEN Inc(win, Coord(e), e.v) ELSE win
             /\ draw' = IF e.result = "D" THEN Inc(draw, Coord(e), e.v) ELSE draw
             /\ loss' = IF e.result = "L" THEN Inc(loss, Coord(e), e.v) ELSE loss
    /\ i' = i + 1
    /\ UNCHANGED <<pc, exc, inpdict, retained, coords, xs, ys, zwins, zdraws,
                   zlosses, m, xdata, ydata, model_ms, model_as, model_bs,
                   popt_as, popt_bs, report, wdl_args, wdl_ret>>

\* lines 60-62: the loop is over, the totals are printed
PrintRetained ==
    /\ pc = "aggregate"
    /\ i > Len(inpdict)
    /\ retained' = <<Values(win), Values(draw), Values(loss)>>
    /\ pc' = "coords"
    /\ UNCHANGED <<exc, inpdict, i, win, draw, loss, coords, xs, ys, zwins,
                   zdraws, zlosses, m, xdata, ydata, model_ms, model_as,
                   model_bs, popt_as, popt_bs, report, wdl_args, wdl_ret>>

-----------------------------------------------------------------------------
(* Rate Computer, lines 65-73 *)

\* the order of Python's sorted() on (float, int) tuples
CoordLess(a, b) == RLess(a[1], b[1]) \/ (a[1] = b[1] /\ a[2] < b[2])

RECURSIVE Sorted(_)
Sorted(S) ==
    IF S = {} THEN <<>>
    ELSE LET lo == CHOOSE a \in S : \A b \in S \ {a} : CoordLess(a, b)
         IN  <<lo>> \o Sorted(S \ {lo})

\* lines 65-66
MakeCoords ==
    /\ pc = "coords"
    /\ coords' = Sorted(DOMAIN win \cup DOMAIN draw \cup DOMAIN loss)
    /\ xs' = <<>> /\ ys' = <<>>
    /\ zwins' = <<>> /\ zdraws' = <<>> /\ zlosses' = <<>>
    /\ i' = 1
    /\ pc' = "rates"
    /\ UNCHANGED <<exc, inpdict, win, draw, loss, retained, m, xdata, ydata,
                   model_ms, model_as, model_bs, popt_as, popt_bs, report,
                   wdl_args, wdl_ret>>

\* line 70
Total(w, d, l) == w + d + l

\* lines 71-73: the three quotients of one coordinate
Rates(w, d, l) ==
    <<Rat(w, Total(w, d, l)), Rat(d, Total(w, d, l)), Rat(l, Total(w, d, l))>>

\* one iteration of the loop of line 67
ComputeRates ==
    /\ pc = "rates"
    /\ i <= Len(coords)
    /\ LET x == coords[i][1]
           y == coords[i][2]
           w == Get(win, <<x, y>>)
           d == Get(draw, <<x, y>>)
           l == Get(loss, <<x, y>>)
           r == Rates(w, d, l)
       IN  /\ xs' = Append(xs, x)
           /\ ys' = Append(ys, y)
           /\ IF Total(w, d, l) = 0
              THEN /\ pc' = "error"
                   /\ exc' = [type |-> "ZeroDivisionError", line |-> 71]
                   /\ UNCHANGED <<zwins, zdraws, zlosses, i>>
              ELSE /\ zwins' = Append(zwins, r[1])
                   /\ zdraws' = Append(zdraws, r[2])
                   /\ zlosses' = Append(zlosses, r[3])
                   /\ i' = i + 1
                   /\ UNCHANGED <<pc, exc>>
    /\ UNCHANGED <<inpdict, win, draw, loss, retained, coords, m, xdata, ydata,
                   model_ms, model_as, model_bs, popt_as, popt_bs, report,
                   wdl_args, wdl_ret>>

\* lines 132-137: the loop is over; scores, moves, winrate, drawrate and
\* lossrate are bound to the very lists xs, ys, zwins, zdraws, zlosses
StartFit ==
    /\ pc = "rates"
    /\ i > Len(coords)
    /\ model_ms' = <<>> /\ model_as' = <<>> /\ model_bs' = <<>>
    /\ m' = FirstBucket
    /\ pc' = "bucket"
    /\ UNCHANGED <<exc, inpdict, i, win, draw, loss, retained, coords, xs, ys,
                   zwins, zdraws, zlosses, xdata, ydata, popt_as, popt_bs,
                   report, wdl_args, wdl_ret>>

\* line 132: the names of the fitter are aliases
scores == xs
moves == ys
winrate == zwins

-----------------------------------------------------------------------------
(* Per-Move Logistic Fitter, lines 137-161 *)

\* lines 141-147: the indices of the samples of the bucket [mmin, mmax)
InBucket(mmin, mmax) ==
    {j \in 1..Len(moves) : ~(moves[j] < mmin \/ moves[j] >= mmax)}

RECURSIVE Pick(_, _, _)
Pick(s, J, j) ==
    IF j > Len(s) THEN <<>>
    ELSE (IF j \in J THEN <<s[j]>> ELSE <<>>) \o Pick(s, J, j + 1)

\* TooFew that also skips a bucket of exactly MinSamples
TooFew_Inclusive(n) == n <= MinSamples

\* line 150
TooFew(n) == n < MinSamples

\* what curve_fit(winmodel, ...) may return: popt = (a, b)
FitResults == {<<RInt(328), RInt(55)>>, <<Rat(655, 2), Rat(109, 2)>>}

\* lines 137-151: the samples of bucket m are gathered; a bucket with too few
\* of them is skipped (ydrawdata and ylossdata are gathered for the plot only)
GatherBucket ==
    /\ pc = "bucket"
    /\ m < BucketEnd
    /\ LET J == InBucket(m, m + grouping) IN
        /\ xdata' = Pick(scores, J, 1)
        /\ ydata' = Pick(winrate, J, 1)
        /\ IF TooFew(Cardinality(J))
           THEN /\ m' = m + grouping
                /\ pc' = "bucket"
           ELSE /\ m' = m
                /\ pc' = "curve_fit"
    /\ UNCHANGED <<exc, inpdict, i, win, draw, loss, retained, coords, xs, ys,
                   zwins, zdraws, zlosses, model_ms, model_as, model_bs,
                   popt_as, popt_bs, report, wdl_args, wdl_ret>>

\* lines 153-161: curve_fit returns popt, or raises RuntimeError when the
\* least-squares minimization fails; nothing catches it
CurveFit ==
    /\ pc = "curve_fit"
    /\ \/ \E popt \in FitResults :
            /\ model_ms' = Append(model_ms, m)
            /\ model_as' = Append(model_as, popt[1])
            /\ model_bs' = Append(model_bs, popt[2])
            /\ m' = m + grouping
            /\ pc' = "bucket"
            /\ UNCHANGED exc
       \/ /\ pc' = "error"
          /\ exc' = [type |-> "RuntimeError", line |-> 153]
          /\ UNCHANGED <<m, model_ms, model_as, model_bs>>
    /\ UNCHANGED <<inpdict, i, win, draw, loss, retained, coords, xs, ys,
                   zwins, zdraws, zlosses, xdata, ydata, popt_as, popt_bs,
                   report, wdl_args, wdl_ret>>

-----------------------------------------------------------------------------
(* Model functions, lines 81-103 *)

\* line 85: Horner evaluation at x / moveTarget
poly3(x, c) ==
    LET xnp == Rat(x, moveTarget) IN
    RAdd(RMul(RAdd(RMul(RAdd(RMul(c[1], xnp), c[2]), xnp), c[3]), xnp), c[4])

\* int(1000 * (1.0 / (1.0 + exp(-u)))) in float64 at u = k/4, k = -27..27
LogisticTable ==
    <<
       1, 1, 1, 2, 3, 4, 5, 6, 8, 10, 14,
       17, 22, 29, 37, 47, 60, 75, 95, 119, 148, 182,
       222, 268, 320, 377, 437, 500, 562, 622, 679, 731, 777,
       817, 851, 880, 904, 924, 939, 952, 962, 970, 977, 982,
       985, 989, 991, 993, 994, 995, 996, 997, 998, 998, 998
    >>

\* Below the table the value is 0; above it 999, and 1000 once 1 + exp(-u)
\* rounds to 1.  An argument between two table points uses the lower one.
Logistic1000(k) ==
    IF k <= -28 THEN 0
    ELSE IF k >= 147 THEN PerMille
    ELSE IF k >= 28 THEN PerMille - 1
    ELSE LogisticTable[k + 28]

\* lines 82, 100: int(1000 * winmodel(x, a, b)).  -(x - a) / b is a numpy
\* float division: b = 0.0 gives an infinity, or NaN when x = a as well, and
\* int() of NaN raises ValueError.
winmodel1000(x, a, b) ==
    LET t == FloatDiv(RNeg(RSub(x, a)), b) IN
    IF t.kind = "nan" THEN [nan |-> TRUE, val |-> 0]
    ELSE IF t.kind = "+inf" THEN [nan |-> FALSE, val |-> 0]
    ELSE IF t.kind = "-inf" THEN [nan |-> FALSE, val |-> PerMille]
    ELSE [nan |-> FALSE,
          val |-> Logistic1000(RFloor(RMul(RInt(4), RNeg(t.val))))]

\* wdl whose draw leaves the loss out
wdl_DropsLoss(score, move, as, bs) ==
    LET a == poly3(move, as)
        b == poly3(move, bs)
        w == winmodel1000(score, a, b)
        l == winmodel1000(RNeg(score), a, b)
    IN  IF w.nan \/ l.nan
        THEN [raised |-> TRUE, w |-> 0, d |-> 0, l |-> 0]
        ELSE [raised |-> FALSE, w |-> w.val, d |-> PerMille - w.val, l |-> l.val]

\* lines 97-103; raised: int() met a NaN and the call raised ValueError
wdl(score, move, as, bs) ==
    LET a == poly3(move, as)
        b == poly3(move, bs)
        w == winmodel1000(score, a, b)
        l == winmodel1000(RNeg(score), a, b)
    IN  IF w.nan \/ l.nan
        THEN [raised |-> TRUE, w |-> 0, d |-> 0, l |-> 0]
        ELSE [raised |-> FALSE, w |-> w.val, d |-> PerMille - w.val - l.val,
              l |-> l.val]

\* a call of wdl on its own
WdlCall ==
    /\ pc = "wdl_call"
    /\ wdl_ret' = <<wdl(wdl_args.score, wdl_args.move, wdl_args.as, wdl_args.bs)>>
    /\ pc' = "wdl_return"
    /\ UNCHANGED <<exc, inpdict, i, win, draw, loss, retained, coords, xs, ys,
                   zwins, zdraws, zlosses, m, xdata, ydata, model_ms, model_as,
                   model_bs, popt_as, popt_bs, report, wdl_args>>

-----------------------------------------------------------------------------
(* Cross-Move Trend Fitter and Normalization Calculator, lines 203-228 *)

\* what curve_fit(poly3, ...) may return for the a-trend and the b-trend
TrendAs ==
    { <<RInt(0), RInt(0), RInt(0), RInt(328)>>,
      <<RInt(0), RInt(0), Rat(-1, 2), Rat(1313, 4)>>,
      <<RInt(0), RInt(0), RInt(0), Rat(-1, 2)>> }

TrendBs ==
    { <<RInt(0), RInt(0), RInt(0), RInt(55)>>,
      <<RInt(0), RInt(0), Rat(1, 2), Rat(217, 4)>> }

\* TrendFit with a curve_fit that accepts any number of data points
TrendFit_Unchecked ==
    /\ pc = "bucket"
    /\ m >= BucketEnd
    /\ \/ /\ \E pa \in TrendAs, pb \in TrendBs :
                /\ popt_as' = pa
                /\ popt_bs' = pb
          /\ pc' = "report"
          /\ UNCHANGED exc
       \/ /\ pc' = "error"
          /\ exc' = [type |-> "RuntimeError", line |-> 203]
          /\ UNCHANGED <<popt_as, popt_bs>>
    /\ UNCHANGED <<inpdict, i, win, draw, loss, retained, coords, xs, ys,
                   zwins, zdraws, zlosses, m, xdata, ydata, model_ms, model_as,
                   model_bs, report, wdl_args, wdl_ret>>

\* lines 203-205: the loop over the buckets is over.  curve_fit raises
\* ValueError for empty data, TypeError for fewer data points than the 4
\* parameters of poly3, RuntimeError when the minimization fails.
TrendFit ==
    /\ pc = "bucket"
    /\ m >= BucketEnd
    /\ \/ /\ Len(model_ms) < PolyParams
          /\ pc' = "error"
          /\ exc' = [type |-> IF Len(model_ms) = 0 THEN "ValueError" ELSE "TypeError",
                     line |-> 203]
          /\ UNCHANGED <<popt_as, popt_bs>>
       \/ /\ Len(model_ms) >= PolyParams
          /\ \E pa \in TrendAs, pb \in TrendBs :
                /\ popt_as' = pa
                /\ popt_bs' = pb
          /\ pc' = "report"
          /\ UNCHANGED exc
       \/ /\ Len(model_ms) >= PolyParams
          /\ pc' = "error"
          /\ exc' = [type |-> "RuntimeError", line |-> 203]
          /\ UNCHANGED <<popt_as, popt_bs>>
    /\ UNCHANGED <<inpdict, i, win, draw, loss, retained, coords, xs, ys,
                   zwins, zdraws, zlosses, m, xdata, ydata, model_ms, model_as,
                   model_bs, report, wdl_args, wdl_ret>>

\* lines 211-228: the printed values (the draw rate of line 217 needs exp
\* of an arbitrary quotient and is not modelled)
Report ==
    /\ pc = "report"
    /\ LET fsum_a == SumSeq(popt_as)
           fsum_b == SumSeq(popt_bs)
       IN  report' = <<[constant |-> IntTrunc(fsum_a),
                        spread |-> IntTrunc(fsum_b),
                        normalized |-> FloatDiv(fsum_b, fsum_a),
                        as |-> popt_as,
                        bs |-> popt_bs]>>
    /\ pc' = "regen_win"
    /\ UNCHANGED <<exc, inpdict, i, win, draw, loss, retained, coords, xs, ys,
                   zwins, zdraws, zlosses, m, xdata, ydata, model_ms, model_as,
                   model_bs, popt_as, popt_bs, wdl_args, wdl_ret>>

-----------------------------------------------------------------------------
(* Model surfaces, lines 271-298 *)

\* wdl at every coordinate, as the two loops call it
Surface == [j \in 1..Len(xs) |-> wdl(xs[j], ys[j], popt_as, popt_bs)]

\* the first index at which wdl raises, or Len(xs) + 1
FirstRaise(res) ==
    LET bad == {j \in 1..Len(res) : res[j].raised}
    IN  IF bad = {} THEN Len(res) + 1
        ELSE CHOOSE j \in bad : \A k \in bad : j <= k

\* lines 272-273: zwins[i] = wdl(...)[0] / 1000.0, in place
RegenWin ==
    /\ pc = "regen_win"
    /\ \E res \in {Surface} : \E stop \in {FirstRaise(res)} :
           /\ zwins' = [j \in 1..Len(zwins) |->
                          IF j < stop THEN Rat(res[j].w, PerMille) ELSE zwins[j]]
           /\ IF stop <= Len(xs)
              THEN /\ pc' = "error"
                   /\ exc' = [type |-> "ValueError", line |-> 273]
              ELSE /\ pc' = "regen_draw"
                   /\ UNCHANGED exc
    /\ UNCHANGED <<inpdict, i, win, draw, loss, retained, coords, xs, ys,
                   zdraws, zlosses, m, xdata, ydata, model_ms, model_as,
                   model_bs, popt_as, popt_bs, report, wdl_args, wdl_ret>>

\* lines 296-297: zwins[i] = wdl(...)[1] / 1000.0, in place
RegenDraw ==
    /\ pc = "regen_draw"
    /\ \E res \in {Surface} : \E stop \in {FirstRaise(res)} :
           /\ zwins' = [j \in 1..Len(zwins) |->
                          IF j < stop THEN Rat(res[j].d, PerMille) ELSE zwins[j]]
           /\ IF stop <= Len(xs)
              THEN /\ pc' = "error"
                   /\ exc' = [type |-> "ValueError", line |-> 297]
              ELSE /\ pc' = "save"
                   /\ UNCHANGED exc
    /\ UNCHANGED <<inpdict, i, win, draw, loss, retained, coords, xs, ys,
                   zdraws, zlosses, m, xdata, ydata, model_ms, model_as,
                   model_bs, popt_as, popt_bs, report, wdl_args, wdl_ret>>

\* lines 306-312: the figure is saved and the script ends
Finish ==
    /\ pc = "save"
    /\ pc' = "done"
    /\ UNCHANGED <<exc, inpdict, i, win, draw, loss, retained, coords, xs, ys,
                   zwins, zdraws, zlosses, m, xdata, ydata, model_ms, model_as,
                   model_bs, popt_as, popt_bs, report, wdl_args, wdl_ret>>

-----------------------------------------------------------------------------
(* Inputs and specifications *)

Results == {"W", "D", "L"}

\* The bulk of an input: for each move of BaseMoves, n[move] entries with the
\* raw scores 1..n[move], one game each, the outcome varying with the score.
BaseMoves == <<2, 3, 117, 118, 119, 120>>

BaseEntry(move, s) ==
    [result |-> IF s % 3 = 1 THEN "W" ELSE IF s % 3 = 2 THEN "D" ELSE "L",
     move |-> move, material |-> 0, score |-> s, v |-> 1]

RECURSIVE Block(_, _, _)
Block(move, s, n) ==
    IF s > n THEN <<>> ELSE <<BaseEntry(move, s)>> \o Block(move, s + 1, n)

RECURSIVE Base(_, _)
Base(n, k) ==
    IF k > Len(BaseMoves) THEN <<>>
    ELSE Block(BaseMoves[k], 1, n[k]) \o Base(n, k + 1)

SampleCounts == {0} \cup ((MinSamples - 1)..MaxSamples)

\* inputs that vary the number of samples of the buckets 3, 117, 118, 119;
\* the moves 2 and 120 lie outside the buckets and hold MinSamples samples
BucketInputs ==
    {Base(n, 1) : n \in {c \in [1..Len(BaseMoves) -> SampleCounts] :
                            c[1] = MinSamples /\ c[Len(BaseMoves)] = MinSamples}}

\* one more entry at the bounds of the filter
ExtraPoints ==
    {<<-1, 1>>, <<0, 1>>, <<119, 1>>, <<120, 1>>, <<121, 1>>,
     <<119, -401>>, <<119, -400>>, <<119, 400>>, <<119, 401>>, <<0, 0>>}

ExtraEntries ==
    {[result |-> r, move |-> p[1], material |-> mat, score |-> p[2], v |-> v] :
        r \in Results, p \in ExtraPoints, mat \in 0..MaxMaterial, v \in 0..MaxCount}

Key(e) == <<e.result, e.move, e.material, e.score>>

FullBase == Base([k \in 1..Len(BaseMoves) |->
                    IF k = 1 \/ k = Len(BaseMoves) THEN 0 ELSE MinSamples], 1)

Entry(r, move, mat, s, v) ==
    [result |-> r, move |-> move, material |-> mat, score |-> s, v |-> v]

\* a few entries that all pass the filter, at its bounds
InBoundsBase ==
    <<Entry("W", 119, 0, 1, 1), Entry("D", 119, 0, 2, 1), Entry("L", 0, 0, 0, 1),
      Entry("W", 120, 0, 400, 1), Entry("D", 0, 0, -400, 1)>>

\* the same with entries just beyond the bounds
EdgeBase ==
    InBoundsBase \o
    <<Entry("W", -1, 0, 1, 1), Entry("W", 121, 0, 1, 1),
      Entry("D", 119, 0, 401, 1), Entry("L", 119, 0, -401, 1)>>

WithExtra(base) ==
    {Append(base, e) : e \in {x \in ExtraEntries :
        \A j \in 1..Len(base) : Key(base[j]) # Key(x)}}

\* inputs at the bounds of the filter: a small base and one more entry, and
\* one input with four full buckets
BoundaryInputs == WithExtra(InBoundsBase) \cup WithExtra(EdgeBase) \cup {FullBase}

NoArgs == [score |-> RInt(0), move |-> 0, as |-> <<>>, bs |-> <<>>]

\* lines 37-43: the input is read, the Counters are empty
Start(inputs) ==
    /\ pc = "aggregate"
    /\ exc = NoExc
    /\ inpdict \in inputs
    /\ i = 1
    /\ win = EmptyCounter /\ draw = EmptyCounter /\ loss = EmptyCounter
    /\ retained = <<>>
    /\ coords = <<>>
    /\ xs = <<>> /\ ys = <<>> /\ zwins = <<>> /\ zdraws = <<>> /\ zlosses = <<>>
    /\ m = 0
    /\ xdata = <<>> /\ ydata = <<>>
    /\ model_ms = <<>> /\ model_as = <<>> /\ model_bs = <<>>
    /\ popt_as = <<>> /\ popt_bs = <<>>
    /\ report = <<>>
    /\ wdl_args = NoArgs
    /\ wdl_ret = <<>>

Init == Start(BucketInputs)

InitBoundary == Start(BoundaryInputs)

Next ==
    \/ Aggregate
    \/ PrintRetained
    \/ MakeCoords
    \/ ComputeRates
    \/ StartFit
    \/ GatherBucket
    \/ CurveFit
    \/ TrendFit
    \/ Report
    \/ RegenWin
    \/ RegenDraw
    \/ Finish

\* the whole script on inputs that vary the buckets
Spec == Init /\ [][Next]_vars

\* the whole script on inputs that vary one entry at the bounds of the filter
SpecBoundary == InitBoundary /\ [][Next]_vars

\* wdl as a pure function: the arguments of one call
WdlScores == {Rescale(s) : s \in -MaxWdlScore..MaxWdlScore}
WdlMoves == {0, 16, 32, 64}
WdlCoeffs ==
    {<<RInt(a), RInt(0), RInt(c), Rat(d, 2)>> :
        a \in -MaxCoef..MaxCoef, c \in 0..MaxCoef, d \in 0..(2 * MaxCoef)}

InitWdl ==
    /\ pc = "wdl_call"
    /\ exc = NoExc
    /\ inpdict = <<>>
    /\ i = 1
    /\ win = EmptyCounter /\ draw = EmptyCounter /\ loss = EmptyCounter
    /\ retained = <<>>
    /\ coords = <<>>
    /\ xs = <<>> /\ ys = <<>> /\ zwins = <<>> /\ zdraws = <<>> /\ zlosses = <<>>
    /\ m = 0
    /\ xdata = <<>> /\ ydata = <<>>
    /\ model_ms = <<>> /\ model_as = <<>> /\ model_bs = <<>>
    /\ popt_as = <<>> /\ popt_bs = <<>>
    /\ report = <<>>
    /\ wdl_args \in [score : WdlScores, move : WdlMoves, as : WdlCoeffs, bs : WdlCoeffs]
    /\ wdl_ret = <<>>

SpecWdl == InitWdl /\ [][WdlCall]_vars

-----------------------------------------------------------------------------
(* Vocabulary of the properties *)

\* the indices of the entries the aggregation loop has been through
Processed == IF pc = "aggregate" THEN 1..(i - 1) ELSE 1..Len(inpdict)

Aggregated == pc \notin {"aggregate", "wdl_call", "wdl_return"}

Table(r) == IF r = "W" THEN win ELSE IF r = "D" THEN draw ELSE loss

\* the entry has a cell in the table of its outcome
Contributes(e) == <<Rescale(e.score), e.move>> \in DOMAIN Table(e.result)

\* the bounds of section 4.1: |rawScore| <= 400 and move in [0, 120]
InBounds(e) == -400 <= e.score /\ e.score <= 400 /\ 0 <= e.move /\ e.move <= 120

RECURSIVE CountOf(_)
CountOf(J) ==
    IF J = {} THEN 0
    ELSE LET j == CHOOSE x \in J : TRUE IN inpdict[j].v + CountOf(J \ {j})

RawTotal == CountOf(1..Len(inpdict))

-----------------------------------------------------------------------------
(* C1: the filter of the Data Aggregator *)

\* C1, as stated: an entry the loop has been through contributes to the
\* tables if and only if |rawScore| <= 400 and 0 <= move <= 119 (move 120 is
\* dropped).
C1_DropsMove120 ==
    \A j \in Processed :
        Contributes(inpdict[j]) <=>
            (/\ -400 <= inpdict[j].score /\ inpdict[j].score <= 400
             /\ 0 <= inpdict[j].move /\ inpdict[j].move <= 119)

\* C1, amended: an entry the loop has been through contributes to the tables
\* if and only if |rawScore| <= 400 and 0 <= move <= 120: scores 400 and -400
\* and moves 0, 119 and 120 are retained, scores 401 and -401 and moves -1
\* and 121 are dropped.
C1_FilterBounds ==
    \A j \in Processed :
        Contributes(inpdict[j]) <=>
            (/\ -400 <= inpdict[j].score /\ inpdict[j].score <= 400
             /\ 0 <= inpdict[j].move /\ inpdict[j].move <= 120)

HasEntry(move, s, kept) ==
    \E j \in Processed :
        /\ inpdict[j].move = move
        /\ inpdict[j].score = s
        /\ Contributes(inpdict[j]) = kept

\* every bound of the filter has been met by one input
C1_Witness ==
    /\ pc = "coords"
    /\ HasEntry(120, 400, TRUE) /\ HasEntry(121, 1, FALSE)
    /\ HasEntry(0, -400, TRUE) /\ HasEntry(-1, 1, FALSE)
    /\ HasEntry(119, 401, FALSE) /\ HasEntry(119, -401, FALSE)
    /\ HasEntry(119, 1, TRUE)

-----------------------------------------------------------------------------
(* C2: the totals of the Rate Computer *)

\* C2: at every coordinate of the sorted union of the keys, the total of the
\* three counts is at least 1, the division is never by zero, and the three
\* rates lie in [0,1] and sum to 1.
C2_TotalPositive ==
    /\ exc.type # "ZeroDivisionError"
    /\ \A j \in 1..Len(coords) :
          Get(win, coords[j]) + Get(draw, coords[j]) + Get(loss, coords[j]) >= 1
    /\ pc \in {"rates", "bucket"} =>
          \A j \in 1..Len(zwins) :
              /\ RAdd(RAdd(zwins[j], zdraws[j]), zlosses[j]) = RInt(1)
              /\ \A r \in {zwins[j], zdraws[j], zlosses[j]} :
                    0 <= r[1] /\ r[1] <= r[2]

-----------------------------------------------------------------------------
(* C4: what the tables hold *)

SameCell(j, r, move, s) ==
    /\ inpdict[j].result = r
    /\ inpdict[j].move = move
    /\ inpdict[j].score = s
    /\ InBounds(inpdict[j])

-----------------------------------------------------------------------------
(* C5: the filter only removes *)

RetainedTotal == retained[1] + retained[2] + retained[3]

\* C5, as stated: the retained total is at most the raw total, and the two
\* are equal only when no entry violates the score/move bounds.
C5_EqualOnlyWithoutViolation ==
    retained # <<>> =>
        /\ RetainedTotal <= RawTotal
        /\ RetainedTotal = RawTotal =>
              \A j \in 1..Len(inpdict) : InBounds(inpdict[j])

\* C5, amended: the retained total is at most the raw total, and the two are
\* equal only when every entry that violates the score/move bounds has the
\* count 0.
C5_EqualOnlyWithoutCountedViolation ==
    retained # <<>> =>
        /\ RetainedTotal <= RawTotal
        /\ RetainedTotal = RawTotal =>
              \A j \in 1..Len(inpdict) : InBounds(inpdict[j]) \/ inpdict[j].v = 0

\* the totals are equal although an entry, of count 0, violates the bounds;
C5_Witness ==
    /\ retained # <<>>
    /\ RetainedTotal = RawTotal
    /\ RawTotal > 0
    /\ \E j \in 1..Len(inpdict) : ~InBounds(inpdict[j])

-----------------------------------------------------------------------------
(* C3: wdl conserves the total *)

\* C3, as stated: for every score, move and pair of coefficient sets, wdl
\* returns integers w, d, l with w + d + l = 1000.
C3_WdlConserves ==
    pc = "wdl_return" =>
        /\ ~wdl_ret[1].raised
        /\ wdl_ret[1].w + wdl_ret[1].d + wdl_ret[1].l = 1000

\* the logistic curve has no value: b(move) = 0 and score = a(move) or -a(move)
Undefined(args) ==
    /\ poly3(args.move, args.bs) = RInt(0)
    /\ \/ args.score = poly3(args.move, args.as)
       \/ RNeg(args.score) = poly3(args.move, args.as)

\* C3, amended: wdl returns unless b(move) = 0 and score = a(move) or
\* score = -a(move), where it raises; whenever it returns, w and l are
\* integers of 0..1000 and w + d + l = 1000.
C3_WdlConservesWhenDefined ==
    pc = "wdl_return" =>
        /\ wdl_ret[1].raised <=> Undefined(wdl_args)
        /\ ~wdl_ret[1].raised =>
              /\ wdl_ret[1].w \in 0..1000 /\ wdl_ret[1].l \in 0..1000
              /\ wdl_ret[1].w + wdl_ret[1].d + wdl_ret[1].l = 1000

\* a call that returned a win, a draw and a loss share, none of them 0
C3_Witness ==
    /\ pc = "wdl_return"
    /\ ~wdl_ret[1].raised
    /\ wdl_ret[1].w > 0 /\ wdl_ret[1].d > 0 /\ wdl_ret[1].l > 0
    /\ wdl_ret[1].w # wdl_ret[1].l

-----------------------------------------------------------------------------
(* C6: a failed fit of one bucket *)

\* C6: a logistic fit that fails for one bucket never stops the run: the
\* bucket is left out and the run goes on to the next bucket.
C6_FitFailureAbsorbed ==
    /\ [](~(pc = "error" /\ exc.line = 153))
    /\ [][pc = "curve_fit" => pc' = "bucket"]_vars

-----------------------------------------------------------------------------
(* C7: the trend fit needs four buckets *)

AtTrendFit == pc = "bucket" /\ m >= 120

\* C7: with fewer than 4 fitted buckets the run ends at the trend fit and
\* reports nothing; no normalization value or coefficient is ever printed
\* with fewer than 4; with 4 or more the trend fit is attempted.
C7_TrendNeedsFourBuckets ==
    /\ []((report # <<>> \/ pc \in {"report", "regen_win", "regen_draw", "save", "done"})
            => Len(model_ms) >= 4)
    /\ [][(AtTrendFit /\ Len(model_ms) < 4)
            => (pc' = "error" /\ exc'.line = 203 /\ report' = <<>>)]_vars
    /\ [][(AtTrendFit /\ Len(model_ms) >= 4)
            => (pc' = "report" \/ (pc' = "error" /\ exc'.type = "RuntimeError"))]_vars

\* a run that fitted some buckets, but fewer than 4, ended at the trend fit
C7_Witness ==
    /\ pc = "error"
    /\ exc.line = 203
    /\ Len(model_ms) \in 1..3
    /\ report = <<>>

-----------------------------------------------------------------------------
(* C8: the buckets that are fitted *)

SampleCount(b) == Cardinality({j \in 1..Len(ys) : ys[j] = b})

Fitted == {model_ms[j] : j \in 1..Len(model_ms)}

InFitter ==
    pc \in {"bucket", "curve_fit"} \/ (pc = "error" /\ exc.line = 153)

AfterFitter ==
    pc \in {"report", "regen_win", "regen_draw", "save", "done"}
        \/ (pc = "error" /\ exc.line \in {203, 273, 297})

\* the buckets the loop of line 137 is through with
DoneBuckets == IF InFitter THEN 3..(m - 1) ELSE 3..119

\* C8: a bucket of [3,120) is passed to the logistic fit if and only if it
\* holds at least 10 rate samples of its move (9 are too few, 10 are enough),
\* and a (move, a, b) entry exists only for such a bucket.
C8_BucketThreshold ==
    (InFitter \/ AfterFitter) =>
        /\ pc = "curve_fit" =>
              /\ m \in 3..119
              /\ SampleCount(m) >= 10
              /\ Len(ydata) = SampleCount(m)
        /\ \A b \in Fitted : b \in 3..119 /\ SampleCount(b) >= 10
        /\ \A b \in DoneBuckets : SampleCount(b) >= 10 <=> b \in Fitted
        /\ Len(model_as) = Len(model_ms) /\ Len(model_bs) = Len(model_ms)

\* a bucket of exactly 9 samples was skipped and one of exactly 10 fitted,
\* while the 10 samples at move 120 made no bucket
C8_Witness ==
    /\ InFitter \/ AfterFitter
    /\ \E b \in DoneBuckets : SampleCount(b) = 9 /\ b \notin Fitted
    /\ \E b \in DoneBuckets : SampleCount(b) = 10 /\ b \in Fitted
    /\ SampleCount(120) = 10 /\ 120 \notin Fitted
    /\ m >= 120

-----------------------------------------------------------------------------
(* C9: the printed normalization values *)

Sum4(c) == RAdd(RAdd(RAdd(c[1], c[2]), c[3]), c[4])

\* round(): to the nearest integer, a tie to the even one
RoundNearest(p) ==
    LET fl == p[1] \div p[2]
        twice == 2 * (p[1] - fl * p[2])
    IN  IF twice < p[2] THEN fl
        ELSE IF twice > p[2] THEN fl + 1
        ELSE IF fl % 2 = 0 THEN fl ELSE fl + 1

\* n is p with its fraction cut off
Truncates(n, p) ==
    /\ Abs(n) * p[2] <= Abs(p[1])
    /\ Abs(p[1]) < (Abs(n) + 1) * p[2]
    /\ (n > 0 => p[1] > 0) /\ (n < 0 => p[1] < 0)

\* C9, as stated: the constant is the sum of the a-coefficients rounded to
\* the nearest integer, the spread the sum of the b-coefficients rounded to
\* the nearest integer, the normalized spread the quotient of these two
\* integers.
C9_RoundedReport ==
    report # <<>> =>
        /\ report[1].constant = RoundNearest(Sum4(report[1].as))
        /\ report[1].spread = RoundNearest(Sum4(report[1].bs))
        /\ report[1].normalized =
              FloatDiv(RInt(report[1].spread), RInt(report[1].constant))

\* C9, amended: the constant is the sum of the a-coefficients truncated
\* toward zero, the spread the sum of the b-coefficients truncated toward
\* zero, and the normalized spread the quotient of the two sums themselves,
\* not of the printed integers (for a sum of the a-coefficients other than 0).
C9_TruncatedReport ==
    report # <<>> =>
        /\ report[1].as = popt_as /\ report[1].bs = popt_bs
        /\ Truncates(report[1].constant, Sum4(popt_as))
        /\ Truncates(report[1].spread, Sum4(popt_bs))
        /\ Sum4(popt_as) # RInt(0) =>
              /\ report[1].normalized.kind = "finite"
              /\ RMul(report[1].normalized.val, Sum4(popt_as)) = Sum4(popt_bs)

\* a report of sums with a fraction of a half or more, where rounding and
\* truncation differ
C9_Witness ==
    /\ report # <<>>
    /\ report[1].constant # RoundNearest(Sum4(popt_as))
    /\ report[1].spread # RoundNearest(Sum4(popt_bs))
    /\ report[1].constant > 0

-----------------------------------------------------------------------------
(* C10: the rate samples after the Rate Computer *)

RatesComputed == pc \notin {"aggregate", "coords", "rates", "wdl_call", "wdl_return"}

\* C10: once computed, the stored winRate, drawRate and lossRate of every
\* coordinate never change, and still sum to 1 when the run ends.
C10_RatesReadOnly ==
    /\ [][RatesComputed => (zwins' = zwins /\ zdraws' = zdraws /\ zlosses' = zlosses)]_vars
    /\ [](pc = "done" =>
            \A j \in 1..Len(zwins) :
                RAdd(RAdd(zwins[j], zdraws[j]), zlosses[j]) = RInt(1))

=============================================================================
